---------------------------- MODULE Spec2Model ----------------------------
(***************************************************************************)
(* A state-machine model of the cross-chain-swap-near HTLC contract        *)
(* (src/src/lib.rs and the modules it uses).  Every public method and      *)
(* every private callback of the contract is one action; a call that       *)
(* panics is rolled back by the host, so a failing call is a call whose    *)
(* action is not enabled.  Cross-contract calls are promises: the method   *)
(* that dispatches them puts a record in `settlements` or `withdrawals`,   *)
(* the receipts resolve in later steps and the callback runs in a step of  *)
(* its own.                                                                *)
(***************************************************************************)
EXTENDS Integers, FiniteSets, Sequences, Bags, TLC

(***************************************************************************)
(* Bounds of the model.                                                    *)
(***************************************************************************)
\* The clock runs from 0 to MaxTime seconds.
MaxTime == 4
\* The largest value of a u64 of the model (the source's 2^64 - 1, scaled).
MaxU64 == 31
\* Order nonces are 1..MaxNonce.
MaxNonce == 1
\* Token amounts of one ft_on_transfer call or one order are 0..MaxAmount.
MaxAmount == 1
\* A ledger balance is never credited beyond MaxTotal.
MaxTotal == 1
\* Attached native deposits are 0..MaxSafety.
MaxSafety == 1
\* At most MaxFailures dispatched transfers fail in one behaviour.
MaxFailures == 1
\* At most MaxInFlight promise chains await their callback at a time.
MaxInFlight == 2

\* timelocks.rs: NANOS_IN_SEC (the source's 10^9, scaled with the u64 width:
\* a delay of (MaxU64 + 1) \div NANOS_IN_SEC seconds or more overflows).
NANOS_IN_SEC == 2

(***************************************************************************)
(* The finite universe the inputs are drawn from.                          *)
(***************************************************************************)
Accounts == {"maker", "resolver", "carol"}
\* the accounts that deposit and are named as maker, and those that fund
\* escrows as resolver
Makers == {"maker"}
Resolvers == {"resolver"}
\* the accounts that call withdraw and cancel: the taker and a third party
Callers == {"resolver", "carol"}
Tokens == {"usdt"}
Hashlocks == {"h1"}
Secrets == {"s1", "s2", "s3"}
PublicKeys == {"pk_maker", "pk_other"}
Nonces == 1..MaxNonce
Amounts == 0..MaxAmount

\* env::sha256_array over the decoded secret: distinct preimages of the
\* model have distinct digests; s3 is a secret no escrow is keyed by.
sha256_array(secret) ==
    CASE secret = "s1" -> "h1"
      [] secret = "s2" -> "h2"
      [] OTHER -> "h3"

(***************************************************************************)
(* timelocks.rs: TimelockDelays, in seconds.                               *)
(***************************************************************************)
Delays(sw, spw, sc, spc, dw, dpw, dc) ==
    [src_withdrawal_delay |-> sw, src_public_withdrawal_delay |-> spw,
     src_cancellation_delay |-> sc, src_public_cancellation_delay |-> spc,
     dst_withdrawal_delay |-> dw, dst_public_withdrawal_delay |-> dpw,
     dst_cancellation_delay |-> dc]

\* The delay records callers submit: one that validates, one that validates
\* and whose stage starts overflow a u64 once in nanoseconds (the public
\* cancellation start twice), and one per ordering rule that breaks it.
DelayChoices ==
    { Delays(1, 2, 3, 4, 1, 2, 3),
      Delays(16, 16, 17, 32, 16, 16, 17),
      Delays(2, 1, 3, 4, 1, 2, 3),
      Delays(1, 3, 3, 4, 1, 2, 3),
      Delays(1, 2, 4, 3, 1, 2, 3),
      Delays(1, 2, 3, 4, 2, 1, 3),
      Delays(1, 2, 3, 4, 1, 3, 3),
      Delays(1, 2, 3, 4, 1, 2, 4) }

\* a validation of the source-chain delays only
validate_src_only(d) ==
    /\ d.src_withdrawal_delay <= d.src_public_withdrawal_delay
    /\ d.src_public_withdrawal_delay < d.src_cancellation_delay
    /\ d.src_cancellation_delay <= d.src_public_cancellation_delay

\* TimelockDelays::validate: TRUE iff no require! fails.
validate(d) ==
    /\ d.src_withdrawal_delay <= d.src_public_withdrawal_delay
    /\ d.src_public_withdrawal_delay < d.src_cancellation_delay
    /\ d.src_cancellation_delay <= d.src_public_cancellation_delay
    /\ d.dst_withdrawal_delay <= d.dst_public_withdrawal_delay
    /\ d.dst_public_withdrawal_delay < d.dst_cancellation_delay
    /\ d.dst_cancellation_delay <= d.src_cancellation_delay

\* Timelocks::new
Timelocks_new(created_at, delays) == [created_at |-> created_at, delays |-> delays]

\* created_at + delay * NANOS_IN_SEC overflows a u64 and the build checks
\* overflow (overflow-checks on): the computation panics
start_panics(overflow_checks, tl, delay) ==
    /\ overflow_checks
    /\ \/ delay * NANOS_IN_SEC > MaxU64
       \/ tl.created_at + delay * NANOS_IN_SEC > MaxU64

\* created_at + delay * NANOS_IN_SEC in u64 arithmetic: where the build does
\* not check overflow, the product and the sum wrap
start(tl, delay) ==
    (tl.created_at + ((delay * NANOS_IN_SEC) % (MaxU64 + 1))) % (MaxU64 + 1)

\* Timelocks::assert_dst_withdrawal_window at block timestamp t.
assert_dst_withdrawal_window(overflow_checks, tl, is_public_caller, t) ==
    /\ IF is_public_caller
       THEN /\ ~start_panics(overflow_checks, tl, tl.delays.dst_public_withdrawal_delay)
            /\ t >= start(tl, tl.delays.dst_public_withdrawal_delay)
       ELSE /\ ~start_panics(overflow_checks, tl, tl.delays.dst_withdrawal_delay)
            /\ t >= start(tl, tl.delays.dst_withdrawal_delay)
    /\ ~start_panics(overflow_checks, tl, tl.delays.dst_cancellation_delay)
    /\ t < start(tl, tl.delays.dst_cancellation_delay)

\* Timelocks::assert_src_withdrawal_window at block timestamp t.
assert_src_withdrawal_window(overflow_checks, tl, is_public_caller, t) ==
    /\ IF is_public_caller
       THEN /\ ~start_panics(overflow_checks, tl, tl.delays.src_public_withdrawal_delay)
            /\ t >= start(tl, tl.delays.src_public_withdrawal_delay)
       ELSE /\ ~start_panics(overflow_checks, tl, tl.delays.src_withdrawal_delay)
            /\ t >= start(tl, tl.delays.src_withdrawal_delay)
    /\ ~start_panics(overflow_checks, tl, tl.delays.src_cancellation_delay)
    /\ t < start(tl, tl.delays.src_cancellation_delay)

\* Timelocks::assert_dst_cancellation_window at block timestamp t.
assert_dst_cancellation_window(overflow_checks, tl, t) ==
    /\ ~start_panics(overflow_checks, tl, tl.delays.dst_cancellation_delay)
    /\ t >= start(tl, tl.delays.dst_cancellation_delay)

\* Timelocks::assert_src_cancellation_window at block timestamp t.
assert_src_cancellation_window(overflow_checks, tl, is_public_caller, t) ==
    IF is_public_caller
    THEN /\ ~start_panics(overflow_checks, tl, tl.delays.src_public_cancellation_delay)
         /\ t >= start(tl, tl.delays.src_public_cancellation_delay)
    ELSE /\ ~start_panics(overflow_checks, tl, tl.delays.src_cancellation_delay)
         /\ t >= start(tl, tl.delays.src_cancellation_delay)

(***************************************************************************)
(* The contract's persistent state (lib.rs: struct Contract) and the       *)
(* environment around it.                                                  *)
(***************************************************************************)
VARIABLES
    now,              \* the time in seconds; env::block_timestamp is in nanoseconds
    checked,          \* the build panics on integer overflow (else it wraps)
    escrows,          \* Contract.escrows: a map hashlock -> Escrow
    deposits,         \* DepositManager.deposits: account -> token -> balance
    locked_deposits,  \* DepositManager.locked_deposits
    used_nonces,      \* Contract.used_nonces
    registered_keys,  \* Contract.registered_keys: account -> Vec<PublicKey>
    settlements,      \* promise chains of withdraw/cancel whose callback has not run
    withdrawals,      \* promise chains of withdraw_deposit whose callback has not run
    ft_net,           \* per token: received through ft_on_transfer minus sent out
    native_held,      \* attached safety deposits minus safety deposits sent out
    main_paid,        \* escrow instance -> successful main transfers
    safety_paid,      \* escrow instance -> successful safety-deposit transfers
    settled,          \* escrow instances whose callback took the success path
    reverted,         \* escrow instances whose callback took the failure path
    failures          \* dispatched transfers that failed so far

vars == <<now, checked, escrows, deposits, locked_deposits, used_nonces, registered_keys,
          settlements, withdrawals, ft_net, native_held, main_paid, safety_paid,
          settled, reverted, failures>>

\* the clock and the build
clock == <<now, checked>>
\* env::block_timestamp
block_timestamp == now * NANOS_IN_SEC
\* the persistent state of the contract
contract_vars == <<escrows, deposits, locked_deposits, used_nonces, registered_keys>>
\* the bookkeeping of what the contract received and sent
book_vars == <<ft_net, native_held, main_paid, safety_paid, settled, reverted,
               failures>>

\* An escrow instance is a hashlock and the number of the record stored under
\* it: the first record created under a hashlock is generation 1.
MaxGen == MaxNonce + 1
Instances == {"h1", "h2"} \X (1..MaxGen)

(***************************************************************************)
(* deposit.rs: DepositManager.  A ledger (deposits, locked_deposits) is    *)
(* a map account -> token -> balance.  `has` is the set of accounts with   *)
(* an entry in the outer map (debits panic without one); a token without   *)
(* an entry in the inner map reads as 0, as in the source.                 *)
(***************************************************************************)
EmptyLedger == [has |-> {}, bal |-> [a \in Accounts |-> [t \in Tokens |-> 0]]]

Balance(ledger, account_id, token_id) ==
    IF account_id \in ledger.has THEN ledger.bal[account_id][token_id] ELSE 0

get_total_balance(account_id, token_id) == Balance(deposits, account_id, token_id)

get_locked_balance(account_id, token_id) == Balance(locked_deposits, account_id, token_id)

saturating_sub(a, b) == IF a >= b THEN a - b ELSE 0

get_available_balance(account_id, token_id) ==
    saturating_sub(get_total_balance(account_id, token_id),
                   get_locked_balance(account_id, token_id))

\* credit_total / credit_locked: the ledger after the credit; the account's
\* entry is made on demand
credit(ledger, account_id, token_id, amount) ==
    [has |-> ledger.has \cup {account_id},
     bal |-> [ledger.bal EXCEPT ![account_id][token_id] =
                 Balance(ledger, account_id, token_id) + amount]]

\* debit_total / debit_locked panic when the account has no entry
can_debit(ledger, account_id) == account_id \in ledger.has

\* debit_total / debit_locked: the ledger after the saturating debit
debit(ledger, account_id, token_id, amount) ==
    [ledger EXCEPT !.bal[account_id][token_id] =
        saturating_sub(Balance(ledger, account_id, token_id), amount)]

assert_available_for_escrow(account_id, token_id, amount) ==
    get_available_balance(account_id, token_id) >= amount

\* a withdrawal check that compares the amount with total, not available
withdrawal_ignoring_locked(account_id, token_id, amount) ==
    /\ amount > 0
    /\ get_total_balance(account_id, token_id) >= amount

assert_available_for_withdrawal(account_id, token_id, amount) ==
    /\ amount > 0
    /\ get_available_balance(account_id, token_id) >= amount

(***************************************************************************)
(* signatures.rs: SignedOrder and verify_maker_signature.                  *)
(***************************************************************************)
\* The orders makers sign off-chain, of a positive amount.
Orders ==
    [nonce : Nonces, maker_id : {"maker"}, taker_id : {"resolver"},
     asset_id : Tokens, amount : 1..MaxAmount, hashlock : Hashlocks,
     timelocks : DelayChoices, is_source : {TRUE}]

\* A later order of the maker under the same hashlock, of amount zero.
LaterOrders ==
    [nonce : {MaxNonce + 1}, maker_id : {"maker"}, taker_id : {"resolver"},
     asset_id : Tokens, amount : {0}, hashlock : Hashlocks,
     timelocks : {Delays(1, 2, 3, 4, 1, 2, 3)}, is_source : {TRUE}]

\* The same order with another amount: what a resolver who alters a signed
\* order submits.
Altered(params) == [params EXCEPT !.amount = (params.amount + 1) % (MaxAmount + 1)]

\* A signature is the decoded signature bytes: well_formed iff they are 64
\* bytes; a well-formed one was made with the secret key of `signer` over
\* SHA256 of the Borsh bytes of `order`.
SignaturesFor(params) ==
    { [well_formed |-> TRUE, signer |-> "pk_maker", order |-> params],
      [well_formed |-> TRUE, signer |-> "pk_other", order |-> params],
      [well_formed |-> TRUE, signer |-> "pk_maker", order |-> Altered(params)],
      [well_formed |-> FALSE, signer |-> "pk_maker", order |-> params] }

\* env::ed25519_verify(signature, sha256(params.to_message_bytes()), public_key)
ed25519_verify(signature, params, public_key) ==
    /\ signature.signer = public_key
    /\ signature.order = params

\* a verification that does not look at the caller
verify_ignoring_caller(predecessor, params, signature, public_key) ==
    /\ params.nonce \notin used_nonces
    /\ signature.well_formed
    /\ ed25519_verify(signature, params, public_key)

\* a verification that does not look at used_nonces
verify_ignoring_nonce(predecessor, params, signature, public_key) ==
    /\ predecessor = params.taker_id
    /\ signature.well_formed
    /\ ed25519_verify(signature, params, public_key)

\* verify_maker_signature: TRUE iff no require!/expect fails; the caller then
\* inserts params.nonce in used_nonces.
verify_maker_signature(predecessor, params, signature, public_key) ==
    /\ predecessor = params.taker_id
    /\ params.nonce \notin used_nonces
    /\ signature.well_formed
    /\ ed25519_verify(signature, params, public_key)

(***************************************************************************)
(* lib.rs: the contract's methods.                                         *)
(***************************************************************************)
\* a membership test that finds every key
contains_any(seq, x) == TRUE

contains(seq, x) == \E i \in 1..Len(seq) : seq[i] = x

\* register_keys: the loop pushing each key the list does not hold yet
RECURSIVE push_new(_, _)
push_new(keys, public_keys) ==
    IF public_keys = <<>> THEN keys
    ELSE push_new(IF contains(keys, Head(public_keys)) THEN keys
                  ELSE Append(keys, Head(public_keys)),
                  Tail(public_keys))

\* The key lists callers submit.
KeyLists == { <<"pk_maker">>, <<"pk_maker", "pk_maker">> }

get_registered_keys(account_id) == registered_keys[account_id]

register_keys(signer, public_keys) ==
    /\ registered_keys' =
          [registered_keys EXCEPT ![signer] = push_new(@, public_keys)]
    /\ UNCHANGED <<clock, escrows, deposits, locked_deposits, used_nonces,
                   settlements, withdrawals, book_vars>>

contains_key(hashlock) == hashlock \in DOMAIN escrows

\* IterableMap::insert on escrows: the record under the key is replaced
insert(hashlock, escrow) ==
    [h \in (DOMAIN escrows) \cup {hashlock} |->
        IF h = hashlock THEN escrow ELSE escrows[h]]

\* the generation of the next record stored under hashlock
NextGen(hashlock) == IF contains_key(hashlock) THEN escrows[hashlock].gen + 1 ELSE 1

\* ft_on_transfer with msg = Deposit, called by the token contract token_id
deposit_ft(token_id, sender_id, amount) ==
    /\ get_total_balance(sender_id, token_id) + amount <= MaxTotal
    /\ deposits' = credit(deposits, sender_id, token_id, amount)
    /\ ft_net' = [ft_net EXCEPT ![token_id] = @ + amount]
    /\ UNCHANGED <<clock, escrows, locked_deposits, used_nonces, registered_keys,
                   settlements, withdrawals, native_held, main_paid,
                   safety_paid, settled, reverted, failures>>

\* ft_on_transfer with msg = CreateDestinationEscrow
create_destination_escrow(token_id, sender_id, amount, hashlock, maker_id, timelocks, attached_deposit) ==
    /\ attached_deposit > 0
    /\ ~contains_key(hashlock)
    /\ validate(timelocks)
    /\ escrows' = insert(hashlock,
          [hashlock |-> hashlock, maker |-> maker_id, taker |-> sender_id,
           asset |-> token_id, amount |-> amount,
           safety_deposit |-> attached_deposit, is_source |-> FALSE,
           timelocks |-> Timelocks_new(block_timestamp, timelocks), claimed |-> FALSE,
           gen |-> NextGen(hashlock)])
    /\ ft_net' = [ft_net EXCEPT ![token_id] = @ + amount]
    /\ native_held' = native_held + attached_deposit
    /\ UNCHANGED <<clock, deposits, locked_deposits, used_nonces, registered_keys,
                   settlements, withdrawals, main_paid, safety_paid, settled,
                   reverted, failures>>

initiate_source_escrow(predecessor, params, signature, public_key, attached_deposit) ==
    /\ attached_deposit > 0
    /\ contains(get_registered_keys(params.maker_id), public_key)
    /\ verify_maker_signature(predecessor, params, signature, public_key)
    /\ used_nonces' = used_nonces \cup {params.nonce}
    /\ validate(params.timelocks)
    /\ assert_available_for_escrow(params.maker_id, params.asset_id, params.amount)
    /\ locked_deposits' =
          credit(locked_deposits, params.maker_id, params.asset_id, params.amount)
    /\ escrows' = insert(params.hashlock,
          [hashlock |-> params.hashlock, maker |-> params.maker_id,
           taker |-> predecessor, asset |-> params.asset_id,
           amount |-> params.amount, safety_deposit |-> attached_deposit,
           is_source |-> TRUE,
           timelocks |-> Timelocks_new(block_timestamp, params.timelocks),
           claimed |-> FALSE, gen |-> NextGen(params.hashlock)])
    /\ native_held' = native_held + attached_deposit
    /\ UNCHANGED <<clock, deposits, registered_keys, settlements, withdrawals,
                   ft_net, main_paid, safety_paid, settled, reverted, failures>>

\* The promise chain withdraw and cancel return: the main promise joined with
\* the safety-deposit transfer, then on_escrow_settled with these arguments.
\* main_res and safety_res are the two promise results the callback finds.
Settlement(escrow, is_cancel, has_transfer, receiver, caller) ==
    [hashlock |-> escrow.hashlock, maker_id |-> escrow.maker,
     taker_id |-> escrow.taker, is_source |-> escrow.is_source,
     is_cancel |-> is_cancel,
     has_transfer |-> has_transfer, token |-> escrow.asset,
     receiver |-> receiver, amount |-> escrow.amount,
     main_res |-> IF has_transfer THEN "pending" ELSE "ok",
     caller |-> caller, safety_deposit |-> escrow.safety_deposit,
     safety_res |-> "pending",
     gen |-> escrow.gen]

\* the promise chains awaiting their callback
InFlight == BagCardinality(settlements) + BagCardinality(withdrawals)

\* checks of withdraw that admit the taker alone
withdraw_checks_by_taker(predecessor, secret) ==
    LET hashlock_bytes == sha256_array(secret) IN
    /\ contains_key(hashlock_bytes)
    /\ ~escrows[hashlock_bytes].claimed
    /\ predecessor = escrows[hashlock_bytes].taker
    /\ IF escrows[hashlock_bytes].is_source
       THEN assert_src_withdrawal_window(checked, escrows[hashlock_bytes].timelocks, FALSE, block_timestamp)
       ELSE assert_dst_withdrawal_window(checked, escrows[hashlock_bytes].timelocks, FALSE, block_timestamp)

\* withdraw up to the timelock validation: TRUE iff the escrow keyed by the
\* hash of the secret is found, is not claimed and the window admits the caller
withdraw_checks(predecessor, secret) ==
    LET hashlock_bytes == sha256_array(secret) IN
    /\ contains_key(hashlock_bytes)
    /\ LET escrow == escrows[hashlock_bytes]
           is_public_caller == predecessor # escrow.taker
       IN
       /\ ~escrow.claimed
       /\ IF escrow.is_source
          THEN assert_src_withdrawal_window(checked, escrow.timelocks, is_public_caller, block_timestamp)
          ELSE assert_dst_withdrawal_window(checked, escrow.timelocks, is_public_caller, block_timestamp)

\* the escrow record with the claimed flag set
claimed_escrow(escrow) == [escrow EXCEPT !.claimed = TRUE]

\* a recipient that is the taker whatever the direction
recipient_taker(escrow) == escrow.taker

\* the recipient of the main transfer of a claim
claim_recipient(escrow) == IF escrow.is_source THEN escrow.taker ELSE escrow.maker

\* withdraw: claims the escrow keyed by the hash of the secret
withdraw(predecessor, secret) ==
    LET hashlock_bytes == sha256_array(secret) IN
    /\ withdraw_checks(predecessor, secret)
    /\ InFlight < MaxInFlight
    /\ LET escrow == escrows[hashlock_bytes]
           recipient == claim_recipient(escrow)
       IN
       /\ escrows' = insert(hashlock_bytes, claimed_escrow(escrow))
       /\ settlements' = settlements (+)
             SetToBag({Settlement(escrow, FALSE, TRUE, recipient, predecessor)})
    /\ UNCHANGED <<clock, deposits, locked_deposits, used_nonces, registered_keys,
                   withdrawals, book_vars>>

\* cancel up to the timelock validation
cancel_checks(predecessor, hashlock) ==
    /\ contains_key(hashlock)
    /\ LET escrow == escrows[hashlock]
           is_public_caller == predecessor # escrow.taker
       IN
       /\ ~escrow.claimed
       /\ IF escrow.is_source
          THEN assert_src_cancellation_window(checked, escrow.timelocks, is_public_caller, block_timestamp)
          ELSE assert_dst_cancellation_window(checked, escrow.timelocks, block_timestamp)

\* cancel: a source escrow's main promise is an empty batch on the contract's
\* own account (no transfer; it cannot fail), a destination escrow's is the
\* ft_transfer back to the taker
cancel(predecessor, hashlock) ==
    /\ cancel_checks(predecessor, hashlock)
    /\ InFlight < MaxInFlight
    /\ LET escrow == escrows[hashlock] IN
       /\ escrows' = insert(hashlock, claimed_escrow(escrow))
       /\ settlements' = settlements (+)
             SetToBag({Settlement(escrow, TRUE, ~escrow.is_source, escrow.taker,
                                  predecessor)})
    /\ UNCHANGED <<clock, deposits, locked_deposits, used_nonces, registered_keys,
                   withdrawals, book_vars>>

\* withdraw_deposit: debits the ledger, then dispatches the transfer
withdraw_deposit(predecessor, token_id, amount) ==
    /\ assert_available_for_withdrawal(predecessor, token_id, amount)
    /\ can_debit(deposits, predecessor)
    /\ InFlight < MaxInFlight
    /\ deposits' = debit(deposits, predecessor, token_id, amount)
    /\ withdrawals' = withdrawals (+)
          SetToBag({[account_id |-> predecessor, token_id |-> token_id,
                     amount |-> amount, res |-> "pending"]})
    /\ UNCHANGED <<clock, escrows, locked_deposits, used_nonces, registered_keys,
                   settlements, book_vars>>

(***************************************************************************)
(* The receipts of the dispatched promises, executed by the host and the   *)
(* token contract: each transfer succeeds or fails.                        *)
(***************************************************************************)
Replace(bag, old, new) == (bag (-) SetToBag({old})) (+) SetToBag({new})

\* the ft_transfer of a settlement executes on the token contract
main_transfer_resolves(p, ok) ==
    /\ BagIn(p, settlements)
    /\ p.main_res = "pending"
    /\ ok \/ failures < MaxFailures
    /\ settlements' = Replace(settlements, p,
          [p EXCEPT !.main_res = IF ok THEN "ok" ELSE "failed"])
    /\ ft_net' = [ft_net EXCEPT ![p.token] = IF ok THEN @ - p.amount ELSE @]
    /\ main_paid' = [main_paid EXCEPT ![<<p.hashlock, p.gen>>] =
                        IF ok THEN @ + 1 ELSE @]
    /\ failures' = IF ok THEN failures ELSE failures + 1
    /\ UNCHANGED <<clock, contract_vars, withdrawals, native_held, safety_paid,
                   settled, reverted>>

\* the native transfer of the safety deposit to the caller executes
safety_deposit_transfer_resolves(p, ok) ==
    /\ BagIn(p, settlements)
    /\ p.safety_res = "pending"
    /\ ok \/ failures < MaxFailures
    /\ settlements' = Replace(settlements, p,
          [p EXCEPT !.safety_res = IF ok THEN "ok" ELSE "failed"])
    /\ native_held' = IF ok THEN native_held - p.safety_deposit ELSE native_held
    /\ safety_paid' = [safety_paid EXCEPT ![<<p.hashlock, p.gen>>] =
                          IF ok THEN @ + 1 ELSE @]
    /\ failures' = IF ok THEN failures ELSE failures + 1
    /\ UNCHANGED <<clock, contract_vars, withdrawals, ft_net, main_paid, settled,
                   reverted>>

\* the ft_transfer of a deposit withdrawal executes on the token contract
withdrawal_transfer_resolves(w, ok) ==
    /\ BagIn(w, withdrawals)
    /\ w.res = "pending"
    /\ ok \/ failures < MaxFailures
    /\ withdrawals' = Replace(withdrawals, w,
          [w EXCEPT !.res = IF ok THEN "ok" ELSE "failed"])
    /\ ft_net' = [ft_net EXCEPT ![w.token_id] = IF ok THEN @ - w.amount ELSE @]
    /\ failures' = IF ok THEN failures ELSE failures + 1
    /\ UNCHANGED <<clock, contract_vars, settlements, native_held, main_paid,
                   safety_paid, settled, reverted>>

(***************************************************************************)
(* lib.rs: the private callbacks.                                          *)
(***************************************************************************)
\* env::promise_result(0) of the callback of settlement p: the result of the
\* first promise of the join, the main promise
promise_result_0(p) == p.main_res

\* the callback of p takes the success path
is_successful(p) == promise_result_0(p) = "ok"

\* a failure path that leaves the record as it is
unreverted_escrow(escrow) == escrow

\* the failure path's record: the claimed flag reverted
reverted_escrow(escrow) == [escrow EXCEPT !.claimed = FALSE]

\* the success path's ledger update does not panic: debit_locked and
\* debit_total find the maker's entry
settled_no_panic(p) ==
    /\ can_debit(locked_deposits, p.maker_id)
    /\ p.is_cancel \/ can_debit(deposits, p.maker_id)

\* a success path that debits locked whatever the direction of the escrow
settled_locked_any(p) ==
    IF settled_no_panic(p)
    THEN debit(locked_deposits, p.maker_id, escrows[p.hashlock].asset,
               escrows[p.hashlock].amount)
    ELSE locked_deposits

\* locked_deposits after the success path of the callback of p
settled_locked(p) ==
    LET escrow == escrows[p.hashlock] IN
    IF p.is_source /\ settled_no_panic(p)
    THEN debit(locked_deposits, p.maker_id, escrow.asset, escrow.amount)
    ELSE locked_deposits

\* deposits after the success path of the callback of p
settled_total(p) ==
    LET escrow == escrows[p.hashlock] IN
    IF p.is_source /\ ~p.is_cancel /\ settled_no_panic(p)
    THEN debit(deposits, p.maker_id, escrow.asset, escrow.amount)
    ELSE deposits

\* on_escrow_settled(hashlock, maker_id, taker_id, is_source, is_cancel) as
\* the callback of settlement p.  A panic in a debit rolls the callback back.
on_escrow_settled(p) ==
    /\ BagIn(p, settlements)
    /\ p.main_res # "pending" /\ p.safety_res # "pending"
    /\ settlements' = settlements (-) SetToBag({p})
    /\ contains_key(p.hashlock)
    /\ IF is_successful(p)
       THEN /\ escrows' = escrows
            /\ locked_deposits' = settled_locked(p)
            /\ deposits' = settled_total(p)
            /\ settled' = IF p.is_source => settled_no_panic(p)
                          THEN settled \cup {<<p.hashlock, p.gen>>}
                          ELSE settled
            /\ reverted' = reverted
       ELSE /\ escrows' = insert(p.hashlock, reverted_escrow(escrows[p.hashlock]))
            /\ UNCHANGED <<deposits, locked_deposits>>
            /\ settled' = settled
            /\ reverted' = reverted \cup {<<p.hashlock, p.gen>>}
    /\ UNCHANGED <<clock, used_nonces, registered_keys, withdrawals, ft_net,
                   native_held, main_paid, safety_paid, failures>>

\* a callback that leaves the ledger as it is
withdrawn_total_kept(w) == deposits

\* deposits after the callback of w: the amount is credited back if the
\* transfer failed
withdrawn_total(w) ==
    IF w.res = "failed"
    THEN credit(deposits, w.account_id, w.token_id, w.amount)
    ELSE deposits

\* on_deposit_withdrawn(account_id, token_id, amount) as the callback of w
on_deposit_withdrawn(w) ==
    /\ BagIn(w, withdrawals)
    /\ w.res # "pending"
    /\ withdrawals' = withdrawals (-) SetToBag({w})
    /\ deposits' = withdrawn_total(w)
    /\ UNCHANGED <<clock, escrows, locked_deposits, used_nonces, registered_keys,
                   settlements, book_vars>>

\* a block passes
Tick ==
    /\ now < MaxTime
    /\ now' = now + 1
    /\ UNCHANGED <<checked, contract_vars, settlements, withdrawals, book_vars>>

(***************************************************************************)
(* The specification.                                                      *)
(***************************************************************************)
Init ==
    /\ now = 0
    /\ checked \in BOOLEAN
    /\ escrows = [h \in {} |-> {}]
    /\ deposits = EmptyLedger
    /\ locked_deposits = EmptyLedger
    /\ used_nonces = {}
    /\ registered_keys = [a \in Accounts |-> <<>>]
    /\ settlements = EmptyBag
    /\ withdrawals = EmptyBag
    /\ ft_net = [t \in Tokens |-> 0]
    /\ native_held = 0
    /\ main_paid = [i \in Instances |-> 0]
    /\ safety_paid = [i \in Instances |-> 0]
    /\ settled = {}
    /\ reverted = {}
    /\ failures = 0

Next ==
    \/ Tick
    \/ \E signer \in Makers, public_keys \in KeyLists :
          register_keys(signer, public_keys)
    \/ \E token_id \in Tokens, sender_id \in Makers, amount \in Amounts :
          deposit_ft(token_id, sender_id, amount)
    \/ \E token_id \in Tokens, sender_id \in Resolvers, amount \in Amounts,
          hashlock \in Hashlocks, maker_id \in Makers,
          timelocks \in DelayChoices, attached_deposit \in 0..MaxSafety :
          create_destination_escrow(token_id, sender_id, amount, hashlock,
                                    maker_id, timelocks, attached_deposit)
    \/ \E predecessor \in Accounts, params \in Orders,
          public_key \in PublicKeys, attached_deposit \in 0..MaxSafety :
          \E signature \in SignaturesFor(params) :
             initiate_source_escrow(predecessor, params, signature, public_key,
                                    attached_deposit)
    \/ \E predecessor \in Callers, secret \in Secrets :
          withdraw(predecessor, secret)
    \/ \E predecessor \in Callers, hashlock \in Hashlocks :
          cancel(predecessor, hashlock)
    \/ \E predecessor \in Makers, token_id \in Tokens, amount \in Amounts :
          withdraw_deposit(predecessor, token_id, amount)
    \/ \E p \in BagToSet(settlements), ok \in BOOLEAN :
          main_transfer_resolves(p, ok)
    \/ \E p \in BagToSet(settlements), ok \in BOOLEAN :
          safety_deposit_transfer_resolves(p, ok)
    \/ \E w \in BagToSet(withdrawals), ok \in BOOLEAN :
          withdrawal_transfer_resolves(w, ok)
    \/ \E p \in BagToSet(settlements) : on_escrow_settled(p)
    \/ \E w \in BagToSet(withdrawals) : on_deposit_withdrawn(w)

Spec == Init /\ [][Next]_vars

\* The source side alone with two orders of the maker under one hashlock:
\* the calls of Next without the destination path and withdraw_deposit, the
\* maker's key registered once and the orders signed by that key.
TwoOrderNext ==
    \/ Tick
    \/ \E signer \in Makers : register_keys(signer, <<"pk_maker">>)
    \/ \E token_id \in Tokens, sender_id \in Makers :
          deposit_ft(token_id, sender_id, MaxAmount)
    \/ \E params \in Orders \cup LaterOrders, attached_deposit \in 0..MaxSafety :
          \E signature \in SignaturesFor(params) :
             initiate_source_escrow(params.taker_id, params, signature,
                                    "pk_maker", attached_deposit)
    \/ \E predecessor \in Callers, secret \in Secrets :
          withdraw(predecessor, secret)
    \/ \E predecessor \in Callers, hashlock \in Hashlocks :
          cancel(predecessor, hashlock)
    \/ \E p \in BagToSet(settlements), ok \in BOOLEAN :
          main_transfer_resolves(p, ok)
    \/ \E p \in BagToSet(settlements), ok \in BOOLEAN :
          safety_deposit_transfer_resolves(p, ok)
    \/ \E p \in BagToSet(settlements) : on_escrow_settled(p)

TwoOrderSpec == Init /\ [][TwoOrderNext]_vars

\* What the host and the callers are assumed to do in the end: time passes,
\* every dispatched receipt executes and every callback is delivered, and
\* for every hashlock some caller keeps calling cancel.  In the source a
\* cancel is not held back by the promise chains in flight, which the model
\* caps at MaxInFlight: the weak fairness of the call is strong fairness of
\* the model's action.
Fairness ==
    /\ WF_vars(Tick)
    /\ \A hashlock \in Hashlocks :
          SF_vars(\E predecessor \in Callers : cancel(predecessor, hashlock))
    /\ WF_vars(\E p \in BagToSet(settlements), ok \in BOOLEAN :
                  main_transfer_resolves(p, ok))
    /\ WF_vars(\E p \in BagToSet(settlements), ok \in BOOLEAN :
                  safety_deposit_transfer_resolves(p, ok))
    /\ WF_vars(\E w \in BagToSet(withdrawals), ok \in BOOLEAN :
                  withdrawal_transfer_resolves(w, ok))
    /\ WF_vars(\E p \in BagToSet(settlements) : on_escrow_settled(p))
    /\ WF_vars(\E w \in BagToSet(withdrawals) : on_deposit_withdrawn(w))

LiveSpec == Init /\ [][Next]_vars /\ Fairness

\* A maker's source escrow under h1 and a resolver's destination escrow
\* under h2 side by side: the calls of Next with the hashlock of a
\* destination escrow h2, deposits and orders of MaxAmount and no
\* withdraw_deposit.
TwoEscrowNext ==
    \/ Tick
    \/ \E signer \in Makers : register_keys(signer, <<"pk_maker">>)
    \/ \E token_id \in Tokens, sender_id \in Makers :
          deposit_ft(token_id, sender_id, MaxAmount)
    \/ \E token_id \in Tokens, sender_id \in Resolvers, amount \in 1..MaxAmount,
          maker_id \in Makers,
          timelocks \in DelayChoices, attached_deposit \in 0..MaxSafety :
          create_destination_escrow(token_id, sender_id, amount, "h2",
                                    maker_id, timelocks, attached_deposit)
    \/ \E predecessor \in Accounts, params \in Orders,
          public_key \in PublicKeys, attached_deposit \in 0..MaxSafety :
          \E signature \in SignaturesFor(params) :
             initiate_source_escrow(predecessor, params, signature, public_key,
                                    attached_deposit)
    \/ \E predecessor \in Callers, secret \in Secrets :
          withdraw(predecessor, secret)
    \/ \E predecessor \in Callers, hashlock \in {"h1", "h2"} :
          cancel(predecessor, hashlock)
    \/ \E p \in BagToSet(settlements), ok \in BOOLEAN :
          main_transfer_resolves(p, ok)
    \/ \E p \in BagToSet(settlements), ok \in BOOLEAN :
          safety_deposit_transfer_resolves(p, ok)
    \/ \E p \in BagToSet(settlements) : on_escrow_settled(p)

TwoEscrowSpec == Init /\ [][TwoEscrowNext]_vars

(***************************************************************************)
(* The claims.                                                             *)
(***************************************************************************)
\* Some call of create_destination_escrow under hashlock h succeeds.
DestinationCreationSucceeds(h) ==
    \E token_id \in Tokens, sender_id \in Resolvers, amount \in Amounts,
       maker_id \in Makers, timelocks \in DelayChoices,
       attached_deposit \in 0..MaxSafety :
       ENABLED create_destination_escrow(token_id, sender_id, amount, h,
                                         maker_id, timelocks, attached_deposit)

\* Some call of initiate_source_escrow with an order under hashlock h succeeds.
SourceCreationSucceeds(h) ==
    \E predecessor \in Accounts, params \in Orders,
       public_key \in PublicKeys, attached_deposit \in 0..MaxSafety :
       /\ params.hashlock = h
       /\ \E signature \in SignaturesFor(params) :
             ENABLED initiate_source_escrow(predecessor, params, signature,
                                            public_key, attached_deposit)

\* C1: while an escrow is stored under a hashlock, no creation call under that
\* hashlock succeeds, on either creation path and whatever the stored
\* escrow's claimed flag is (a failing call changes nothing).
C1_CollisionRejected ==
    \A h \in DOMAIN escrows :
       ~DestinationCreationSucceeds(h) /\ ~SourceCreationSucceeds(h)

\* C2: no escrow instance is paid by more than one successful main transfer
\* (a claim's transfer to the claim recipient or a destination cancel's
\* refund to the taker), whatever claims, cancels, creations and callbacks,
\* failed ones and retries included, interleave.
C2_PaidAtMostOnce == \A i \in Instances : main_paid[i] <= 1

\* the settlements in flight for hashlock h
InFlightFor(h) == BagOfAll(LAMBDA p : p.hashlock, settlements)

\* C3: while a settlement dispatched by withdraw or cancel awaits its callback,
\* the record stored under its hashlock has claimed = TRUE (so withdraw and
\* cancel on it fail), and at most one settlement per hashlock is in flight.
C3_InFlightHoldsClaimed ==
    \A p \in BagToSet(settlements) :
       /\ escrows[p.hashlock].claimed
       /\ \A predecessor \in Callers, secret \in Secrets :
             sha256_array(secret) = p.hashlock
                => ~withdraw_checks(predecessor, secret)
       /\ \A predecessor \in Callers : ~cancel_checks(predecessor, p.hashlock)
       /\ CopiesIn(p.hashlock, InFlightFor(p.hashlock)) = 1

\* C4: for every token, what the contract has sent out by successful
\* transfers never exceeds what it received through ft_on_transfer.
C4_NoValueCreated == \A t \in Tokens : ft_net[t] >= 0

RECURSIVE SumOver(_, _)
SumOver(S, f) ==
    IF S = {} THEN 0
    ELSE LET x == CHOOSE y \in S : TRUE IN f[x] + SumOver(S \ {x}, f)

\* a settlement of hashlock h awaits its callback
CallbackPending(h) == \E p \in BagToSet(settlements) : p.hashlock = h

\* the hashlocks of the source escrows of maker a in token t that are not
\* yet successfully settled
UnsettledSource(a, t) ==
    { h \in DOMAIN escrows :
         /\ escrows[h].is_source
         /\ escrows[h].maker = a
         /\ escrows[h].asset = t
         /\ ~escrows[h].claimed \/ CallbackPending(h) }

\* C6: for every maker and token, locked is the sum of the amounts of the
\* maker's source escrows in that token that are not yet successfully
\* settled (unclaimed, or claimed with the callback pending).
C6_LockedIsUnsettledSum ==
    \A a \in Accounts, t \in Tokens :
       get_locked_balance(a, t) =
          SumOver(UnsettledSource(a, t), [h \in DOMAIN escrows |-> escrows[h].amount])

\* the hashlocks of the escrows whose safety deposit the contract should hold:
\* unclaimed, or claimed with a settlement in flight whose safety-deposit
\* transfer has not gone out
HoldsSafetyDeposit ==
    { h \in DOMAIN escrows :
         \/ ~escrows[h].claimed
         \/ \E p \in BagToSet(settlements) :
               p.hashlock = h /\ p.safety_res # "ok" }

\* C7: the native balance held for safety deposits (attached at creation
\* minus transferred out) is the sum of the safety deposits of the escrows
\* that are unclaimed or whose settlement is in flight.
C7_SafetyDepositsHeld ==
    native_held = SumOver(HoldsSafetyDeposit,
                          [h \in DOMAIN escrows |-> escrows[h].safety_deposit])

\* C8: the safety deposit of an escrow is transferred out at most once, and
\* a settlement that takes the failure path has not paid it to its caller.
C8_SafetyDepositPaidOnSuccessOnly ==
    /\ \A i \in Instances : safety_paid[i] <= 1
    /\ \A p \in BagToSet(settlements) :
          p.main_res = "failed" => p.safety_res # "ok"

\* C9: once a callback of a hashlock has taken the success path, the record
\* stored under the hashlock keeps claimed = TRUE, and withdraw and cancel
\* on it fail.
C9_SettledStaysClaimed ==
    \A i \in settled :
       /\ escrows[i[1]].claimed
       /\ \A predecessor \in Callers, secret \in Secrets :
             sha256_array(secret) = i[1] => ~withdraw_checks(predecessor, secret)
       /\ \A predecessor \in Callers : ~cancel_checks(predecessor, i[1])

\* the window of the escrow under h admits a claim by predecessor
ClaimWindowOpen(predecessor, h) ==
    LET escrow == escrows[h] IN
    IF escrow.is_source
    THEN assert_src_withdrawal_window(checked, escrow.timelocks, predecessor # escrow.taker, block_timestamp)
    ELSE assert_dst_withdrawal_window(checked, escrow.timelocks, predecessor # escrow.taker, block_timestamp)

\* the window of the escrow under h admits a cancel by predecessor
CancelWindowOpen(predecessor, h) ==
    LET escrow == escrows[h] IN
    IF escrow.is_source
    THEN assert_src_cancellation_window(checked, escrow.timelocks, predecessor # escrow.taker, block_timestamp)
    ELSE assert_dst_cancellation_window(checked, escrow.timelocks, block_timestamp)

\* every caller the current window admits passes the checks of withdraw
\* (with the secret) or of cancel on the escrow under h, and the call can
\* dispatch its transfers
Reopened(h) ==
    /\ InFlight < MaxInFlight
    /\ \A predecessor \in Callers :
          /\ ClaimWindowOpen(predecessor, h) =>
                \E secret \in Secrets :
                   sha256_array(secret) = h /\ withdraw_checks(predecessor, secret)
          /\ CancelWindowOpen(predecessor, h) => cancel_checks(predecessor, h)

\* C10: a settlement callback that takes the failure path leaves the escrow
\* with claimed = FALSE and both ledgers as they were, and right after it
\* every caller the current phase admits can claim or cancel the escrow
\* again.
C10_FailurePathReopens ==
    [][\A p \in BagToSet(settlements) :
          (on_escrow_settled(p) /\ ~is_successful(p)) =>
             /\ ~escrows'[p.hashlock].claimed
             /\ deposits' = deposits
             /\ locked_deposits' = locked_deposits
             /\ Reopened(p.hashlock)']_vars

\* For C10: after a failure-path callback of an escrow instance, a new
\* settlement of the same instance has been dispatched and its main transfer
\* has succeeded.
C10_Witness ==
    \E p \in BagToSet(settlements) :
       /\ <<p.hashlock, p.gen>> \in reverted
       /\ p.main_res = "ok"

\* created_at + delay * NANOS_IN_SEC as an exact integer: the stage start
\* the delays of the escrow stand for
StageStart(escrow, delay) == escrow.timelocks.created_at + delay * NANOS_IN_SEC

\* the withdrawal start of the escrow for the taker or for anyone else
WithdrawalStart(escrow, is_public_caller) ==
    LET d == escrow.timelocks.delays IN
    StageStart(escrow,
       IF escrow.is_source
       THEN IF is_public_caller THEN d.src_public_withdrawal_delay
                                ELSE d.src_withdrawal_delay
       ELSE IF is_public_caller THEN d.dst_public_withdrawal_delay
                                ELSE d.dst_withdrawal_delay)

\* the cancellation start of the escrow for the taker or for anyone else
CancellationStart(escrow, is_public_caller) ==
    LET d == escrow.timelocks.delays IN
    StageStart(escrow,
       IF escrow.is_source
       THEN IF is_public_caller THEN d.src_public_cancellation_delay
                                ELSE d.src_cancellation_delay
       ELSE d.dst_cancellation_delay)

\* C11: a claim succeeds only at a time before the escrow's cancellation
\* start and at or after its withdrawal start for the taker, its public
\* withdrawal start for any other caller.
C11_ClaimOnlyInWindow ==
    \A predecessor \in Callers, secret \in Secrets :
       ENABLED withdraw(predecessor, secret) =>
          LET escrow == escrows[sha256_array(secret)] IN
          /\ block_timestamp < CancellationStart(escrow, FALSE)
          /\ block_timestamp >= WithdrawalStart(escrow, predecessor # escrow.taker)

\* C12: a cancel of a source escrow succeeds only at or after the source
\* cancellation start for the taker, the public cancellation start for any
\* other caller.
C12_SourceCancelOnlyInWindow ==
    \A predecessor \in Callers, h \in DOMAIN escrows :
       (escrows[h].is_source /\ ENABLED cancel(predecessor, h)) =>
          block_timestamp >=
             CancellationStart(escrows[h], predecessor # escrows[h].taker)

\* C13: a cancel of an unclaimed destination escrow succeeds exactly from the
\* destination cancellation start on, for any caller; its token transfer is
\* of the escrow amount to the taker and its safety deposit goes to the
\* caller.
C13_DestinationCancel ==
    /\ \A predecessor \in Callers, h \in DOMAIN escrows :
          (~escrows[h].is_source /\ ~escrows[h].claimed /\ InFlight < MaxInFlight) =>
             (ENABLED cancel(predecessor, h) <=>
                 block_timestamp >= CancellationStart(escrows[h], FALSE))
    /\ \A p \in BagToSet(settlements) :
          (p.is_cancel /\ ~p.is_source) =>
             /\ p.has_transfer
             /\ p.receiver = p.taker_id
             /\ escrows[p.hashlock].gen = p.gen =>
                   /\ p.amount = escrows[p.hashlock].amount
                   /\ p.safety_deposit = escrows[p.hashlock].safety_deposit

\* C14: before the withdrawal start of a stored escrow, every claim and every
\* cancel of it fails, whoever calls.
C14_FinalityPhase ==
    \A h \in DOMAIN escrows :
       block_timestamp < WithdrawalStart(escrows[h], FALSE) =>
          \A predecessor \in Callers :
             /\ ~ENABLED cancel(predecessor, h)
             /\ \A secret \in Secrets :
                   sha256_array(secret) = h => ~ENABLED withdraw(predecessor, secret)

\* C15: a successful claim dispatches a main transfer of exactly the escrow
\* amount to the taker of a source escrow, to the maker of a destination
\* escrow, whoever calls, and a transfer of the safety deposit to the caller.
C15_ClaimRecipient ==
    [][\A predecessor \in Callers, secret \in Secrets :
          withdraw(predecessor, secret) =>
             LET escrow == escrows[sha256_array(secret)] IN
             \E p \in BagToSet(settlements') :
                /\ CopiesIn(p, settlements') = CopiesIn(p, settlements) + 1
                /\ BagCardinality(settlements') = BagCardinality(settlements) + 1
                /\ ~p.is_cancel
                /\ p.has_transfer
                /\ p.token = escrow.asset
                /\ p.amount = escrow.amount
                /\ p.receiver = (IF escrow.is_source THEN escrow.taker ELSE escrow.maker)
                /\ p.caller = predecessor
                /\ p.safety_deposit = escrow.safety_deposit]_vars

\* For C15: the main transfer of a claim made by a third party has succeeded
\* with the maker as its recipient, and the safety-deposit transfer to the
\* third party has succeeded.
C15_Witness ==
    \E p \in BagToSet(settlements) :
       /\ checked
       /\ ~p.is_cancel
       /\ p.caller = "carol"
       /\ p.receiver = "maker"
       /\ p.main_res = "ok"
       /\ p.safety_res = "ok"

\* C16: the success path of the callback of a source claim decreases
\* total(maker, token) and locked(maker, token) by exactly the escrow amount,
\* so the available balance is what it was before the callback.
C16_SourceClaimDebitsBoth ==
    [][\A p \in BagToSet(settlements) :
          (on_escrow_settled(p) /\ is_successful(p) /\ p.is_source /\ ~p.is_cancel) =>
             /\ get_total_balance(p.maker_id, p.token)' =
                   get_total_balance(p.maker_id, p.token) - p.amount
             /\ get_locked_balance(p.maker_id, p.token)' =
                   get_locked_balance(p.maker_id, p.token) - p.amount
             /\ get_available_balance(p.maker_id, p.token)' =
                   get_available_balance(p.maker_id, p.token)]_vars

\* C17: a cancel of a source escrow dispatches no token transfer, and the
\* success path of its callback leaves total(maker, token) unchanged and
\* raises the maker's available balance by the escrow amount, back to what
\* it was before the escrow was created.
C17_SourceCancelRefunds ==
    [][/\ \A predecessor \in Callers, h \in Hashlocks :
             (cancel(predecessor, h) /\ escrows[h].is_source) =>
                \A p \in BagToSet(settlements') :
                   (CopiesIn(p, settlements') > CopiesIn(p, settlements)) =>
                      ~p.has_transfer
       /\ \A p \in BagToSet(settlements) :
             (on_escrow_settled(p) /\ is_successful(p) /\ p.is_source /\ p.is_cancel) =>
                /\ get_total_balance(p.maker_id, p.token)' =
                      get_total_balance(p.maker_id, p.token)
                /\ get_available_balance(p.maker_id, p.token)' =
                      get_available_balance(p.maker_id, p.token) + p.amount]_vars

\* a step stores a new source escrow record
SourceEscrowCreated ==
    \E h \in DOMAIN escrows' :
       /\ escrows'[h].is_source
       /\ h \in DOMAIN escrows => escrows'[h].gen # escrows[h].gen

\* C18: used_nonces only grows, and a source escrow is created only from an
\* order whose nonce was not in used_nonces and is in it afterwards: a call
\* with a used nonce fails, and a nonce belongs to at most one escrow.
C18_NonceUsedOnce ==
    [][/\ used_nonces \subseteq used_nonces'
       /\ SourceEscrowCreated =>
             /\ \E nonce \in Nonces \ used_nonces :
                   used_nonces' = used_nonces \cup {nonce}
             /\ \A predecessor \in Accounts, params \in Orders,
                   public_key \in PublicKeys, attached_deposit \in 0..MaxSafety :
                   \A signature \in SignaturesFor(params) :
                      initiate_source_escrow(predecessor, params, signature,
                                             public_key, attached_deposit) =>
                         /\ params.nonce \notin used_nonces
                         /\ params.nonce \in used_nonces']_vars

\* For C18: a source escrow was created with nonce 1, it is settled and the
\* maker's key and available balance would let the same order through again.
C18_Witness ==
    /\ 1 \in used_nonces
    /\ contains(get_registered_keys("maker"), "pk_maker")
    /\ \E h \in DOMAIN escrows :
          /\ escrows[h].is_source
          /\ get_available_balance("maker", escrows[h].asset) >= escrows[h].amount

\* C19: a source escrow is created only with a public key that is in the
\* maker's registered keys at that moment; a step changes the registered
\* keys of an account only by register_keys signed by that account, and
\* keeps every key registered before.
C19_RegisteredKeyRequired ==
    [][/\ SourceEscrowCreated =>
             \A predecessor \in Accounts, params \in Orders,
                public_key \in PublicKeys, attached_deposit \in 0..MaxSafety :
                \A signature \in SignaturesFor(params) :
                   initiate_source_escrow(predecessor, params, signature,
                                          public_key, attached_deposit) =>
                      \E i \in 1..Len(registered_keys[params.maker_id]) :
                         registered_keys[params.maker_id][i] = public_key
       /\ \A a \in Accounts :
             registered_keys'[a] # registered_keys[a] =>
                /\ \A i \in 1..Len(registered_keys[a]) :
                      \E j \in 1..Len(registered_keys'[a]) :
                         registered_keys'[a][j] = registered_keys[a][i]
                /\ \E public_keys \in KeyLists : register_keys(a, public_keys)]_vars

\* For C19: the maker has registered a key and a source escrow of the maker
\* is stored while another key is not registered.
C19_Witness ==
    /\ \E h \in DOMAIN escrows : escrows[h].is_source /\ escrows[h].maker = "maker"
    /\ registered_keys["maker"] = <<"pk_maker">>

\* the ordering rules of the delays
DelaysOrdered(d) ==
    /\ d.src_withdrawal_delay <= d.src_public_withdrawal_delay
    /\ d.src_public_withdrawal_delay < d.src_cancellation_delay
    /\ d.src_cancellation_delay <= d.src_public_cancellation_delay
    /\ d.dst_withdrawal_delay <= d.dst_public_withdrawal_delay
    /\ d.dst_public_withdrawal_delay < d.dst_cancellation_delay
    /\ d.dst_cancellation_delay <= d.src_cancellation_delay

EscrowAmount == [h \in DOMAIN escrows |-> escrows[h].amount]

\* the hashlocks of the source escrows of maker a in token t that are
\* unclaimed or whose own settlement awaits its callback
OpenSource(a, t) ==
    { h \in DOMAIN escrows :
         /\ escrows[h].is_source
         /\ escrows[h].maker = a
         /\ escrows[h].asset = t
         /\ \/ ~escrows[h].claimed
            \/ \E p \in BagToSet(settlements) :
                  p.hashlock = h /\ p.gen = escrows[h].gen }

\* some call of initiate_source_escrow with the order params succeeds
OrderAdmitted(params) ==
    \E predecessor \in Accounts, public_key \in PublicKeys :
       \E signature \in SignaturesFor(params) :
          ENABLED initiate_source_escrow(predecessor, params, signature,
                                         public_key, MaxSafety)

\* every successful withdraw_deposit has a positive amount, and the amount of
\* every successful withdraw_deposit or initiate_source_escrow is
\* <= total - locked of the (account, token)
AmountWithinAvailable ==
    /\ \A a \in Makers, t \in Tokens, amount \in Amounts :
          ENABLED withdraw_deposit(a, t, amount) =>
             /\ amount > 0
             /\ amount <= get_total_balance(a, t) - get_locked_balance(a, t)
    /\ \A params \in {o \in Orders : validate(o.timelocks)} :
          OrderAdmitted(params) =>
             params.amount <= get_total_balance(params.maker_id, params.asset_id)
                                 - get_locked_balance(params.maker_id, params.asset_id)

\* the amount of every successful withdraw_deposit or initiate_source_escrow
\* is <= total minus the amounts of the account's open source escrows
AmountWithinUnsettled ==
    /\ \A a \in Makers, t \in Tokens, amount \in Amounts :
          ENABLED withdraw_deposit(a, t, amount) =>
             amount <= get_total_balance(a, t) - SumOver(OpenSource(a, t), EscrowAmount)
    /\ \A params \in {o \in Orders : validate(o.timelocks)} :
          OrderAdmitted(params) =>
             params.amount <= get_total_balance(params.maker_id, params.asset_id)
                                 - SumOver(OpenSource(params.maker_id, params.asset_id),
                                           EscrowAmount)

\* C21: withdraw_deposit and initiate_source_escrow succeed only with an
\* amount <= total - locked of the (account, token), where locked still
\* holds the amounts of the maker's source escrows that are unsettled or
\* whose settlement is pending (so the amount is within total minus those
\* amounts); withdraw_deposit also fails with amount 0.
C21_AvailableFundsRequired == AmountWithinAvailable /\ AmountWithinUnsettled

\* the total balances of every (account, token) other than (a, t) stay
OtherTotalsKept(a, t) ==
    \A b \in Accounts, u \in Tokens :
       <<b, u>> # <<a, t>> => get_total_balance(b, u)' = get_total_balance(b, u)

ClaimAdmitted(predecessor, secret) ==
    /\ sha256_array(secret) \in DOMAIN escrows
    /\ ~escrows[sha256_array(secret)].claimed
    /\ ClaimWindowOpen(predecessor, sha256_array(secret))

\* C24: a claim with a secret fails when no escrow is keyed by the hash of
\* the secret, succeeds for any caller when that escrow is unclaimed and its
\* phase admits the caller, and leaves every escrow under another hashlock
\* as it is.
C24_ClaimByHashlock ==
    /\ [](\A predecessor \in Callers, secret \in Secrets :
             /\ sha256_array(secret) \notin DOMAIN escrows =>
                   ~ENABLED withdraw(predecessor, secret)
             /\ (ClaimAdmitted(predecessor, secret) /\ InFlight < MaxInFlight) =>
                   ENABLED withdraw(predecessor, secret))
    /\ [][\A predecessor \in Callers, secret \in Secrets :
             withdraw(predecessor, secret) =>
                /\ DOMAIN escrows' = DOMAIN escrows
                /\ \A h \in DOMAIN escrows :
                      h # sha256_array(secret) => escrows'[h] = escrows[h]]_vars

\* For C24: in a build that checks overflow, a third party has claimed the
\* destination escrow under h2 with its secret while the source escrow under
\* h1 is stored unclaimed.
C24_Witness ==
    /\ checked
    /\ "h1" \in DOMAIN escrows
    /\ ~escrows["h1"].claimed
    /\ \E p \in BagToSet(settlements) :
          /\ p.hashlock = "h2"
          /\ ~p.is_cancel
          /\ p.caller = "carol"
          /\ p.gen = escrows["h2"].gen

\* C25: the settlement callback takes the success path (the record keeps
\* claimed = TRUE) only if the main transfer and the safety-deposit transfer
\* both succeeded; if either failed it takes the failure path: claimed is
\* reverted to FALSE and the ledger is left as it is.
C25_BothTransfersDecide ==
    [][\A p \in BagToSet(settlements) :
          on_escrow_settled(p) =>
             IF p.main_res = "ok" /\ p.safety_res = "ok"
             THEN escrows' = escrows
             ELSE /\ ~escrows'[p.hashlock].claimed
                  /\ deposits' = deposits
                  /\ locked_deposits' = locked_deposits]_vars

\* the signature the maker made over the order params with the key pk_maker
MakerSignature(params) == [well_formed |-> TRUE, signer |-> "pk_maker", order |-> params]

\* a check of initiate_source_escrow that runs after the signature check
\* rejects the order: its timelocks are invalid, the maker's available funds
\* are short or its hashlock is taken
RejectedAfterSignature(params) ==
    \/ ~DelaysOrdered(params.timelocks)
    \/ get_total_balance(params.maker_id, params.asset_id)
          - get_locked_balance(params.maker_id, params.asset_id) < params.amount
    \/ params.hashlock \in DOMAIN escrows

\* C26: an initiate_source_escrow call that a check rejects, the checks after
\* the signature check included (invalid timelocks, insufficient available
\* funds, hashlock collision), fails and leaves used_nonces, the ledger and
\* the escrow store as they were: the nonce is consumed only in a step that
\* stores the escrow, and an order with an unused nonce, signed by a
\* registered key, is admitted once no check rejects it.
C26_AbortLeavesNoEffect ==
    /\ [](\A params \in Orders :
             RejectedAfterSignature(params) => ~OrderAdmitted(params))
    /\ [](\A params \in Orders :
             (/\ ~RejectedAfterSignature(params)
              /\ params.nonce \notin used_nonces
              /\ \E i \in 1..Len(registered_keys[params.maker_id]) :
                    registered_keys[params.maker_id][i] = "pk_maker") =>
                ENABLED initiate_source_escrow(params.taker_id, params,
                           MakerSignature(params), "pk_maker", MaxSafety))
    /\ [][used_nonces' # used_nonces =>
             /\ SourceEscrowCreated
             /\ \E params \in Orders :
                   /\ used_nonces' = used_nonces \cup {params.nonce}
                   /\ ~RejectedAfterSignature(params)]_vars

\* the orders of amount zero a maker can sign
ZeroOrders == { [o EXCEPT !.amount = 0] : o \in Orders }

\* no initiate_source_escrow call with an order of amount zero succeeds
NoZeroSourceEscrow ==
    \A params \in ZeroOrders, attached_deposit \in 0..MaxSafety :
       ~ENABLED initiate_source_escrow(params.taker_id, params,
                   MakerSignature(params), "pk_maker", attached_deposit)

\* no create_destination_escrow call with amount zero succeeds
NoZeroDestinationEscrow ==
    \A token_id \in Tokens, sender_id \in Resolvers, hashlock \in Hashlocks,
       maker_id \in Makers, timelocks \in DelayChoices,
       attached_deposit \in 0..MaxSafety :
       ~ENABLED create_destination_escrow(token_id, sender_id, 0, hashlock,
                   maker_id, timelocks, attached_deposit)

\* C27: every stored escrow has amount > 0, and no creation call with amount
\* zero succeeds, on either creation path.
C27_PositiveAmount ==
    /\ \A h \in DOMAIN escrows : escrows[h].amount > 0
    /\ NoZeroSourceEscrow
    /\ NoZeroDestinationEscrow

\* the fields of an escrow record other than claimed
FixedFields(escrow) ==
    <<escrow.hashlock, escrow.maker, escrow.taker, escrow.asset, escrow.amount,
      escrow.safety_deposit, escrow.is_source, escrow.timelocks>>

\* C28: every step (a claim, a cancel, a settlement callback, a later
\* creation call or any other call) keeps every stored escrow in the store
\* and leaves all its fields other than claimed as they are.
C28_FieldsFixed ==
    [][\A h \in DOMAIN escrows :
          /\ h \in DOMAIN escrows'
          /\ FixedFields(escrows'[h]) = FixedFields(escrows[h])]_vars

\* C29: a step that stores a destination escrow, a claim or a cancel of a
\* destination escrow and the settlement callback of a destination escrow,
\* on either path, leave deposits and locked_deposits as they are.
C29_DestinationLeavesLedger ==
    [][/\ (\E h \in DOMAIN escrows' :
              ~escrows'[h].is_source /\ h \notin DOMAIN escrows) =>
             /\ deposits' = deposits
             /\ locked_deposits' = locked_deposits
       /\ \A predecessor \in Callers, secret \in Secrets :
             (withdraw(predecessor, secret) /\ ~escrows[sha256_array(secret)].is_source) =>
                /\ deposits' = deposits
                /\ locked_deposits' = locked_deposits
       /\ \A predecessor \in Callers, h \in DOMAIN escrows :
             (cancel(predecessor, h) /\ ~escrows[h].is_source) =>
                /\ deposits' = deposits
                /\ locked_deposits' = locked_deposits
       /\ \A p \in BagToSet(settlements) :
             (on_escrow_settled(p) /\ ~p.is_source) =>
                /\ deposits' = deposits
                /\ locked_deposits' = locked_deposits]_vars

\* For C29: in a build that checks overflow, the callback of a destination
\* escrow took the success path while the maker had a deposit all of which
\* is locked in a source escrow.
C29_Witness ==
    /\ checked
    /\ "h2" \in DOMAIN escrows
    /\ ~escrows["h2"].is_source
    /\ <<"h2", escrows["h2"].gen>> \in settled
    /\ get_locked_balance("maker", "usdt") = 1
    /\ get_total_balance("maker", "usdt") = 1

\* C30: at no time do the phase checks of a stored escrow admit both a
\* claim by some caller and a cancel by some caller.
C30_ClaimCancelExclusive ==
    \A h \in DOMAIN escrows, claimer \in Callers, canceller \in Callers :
       ~(ClaimWindowOpen(claimer, h) /\ CancelWindowOpen(canceller, h))

\* the escrow instance i is the record stored under its hashlock
Stored(i) == i[1] \in DOMAIN escrows /\ escrows[i[1]].gen = i[2]

\* the clock reaches the start from which any caller may cancel the escrow
CancellableInTime(escrow) ==
    CancellationStart(escrow, TRUE) <= MaxTime * NANOS_IN_SEC

\* from the start of the public cancellation of a stored unclaimed escrow
\* on, a cancel by any caller passes every check
CancelOpenToAll ==
    \A h \in DOMAIN escrows, predecessor \in Callers :
       (~escrows[h].claimed
          /\ block_timestamp >= CancellationStart(escrows[h], TRUE)) =>
          cancel_checks(predecessor, h)

\* the record of escrow instance i was replaced before the instance was
\* settled, and no settlement of the instance awaits its callback
Lost(i) ==
    /\ i[1] \in DOMAIN escrows
    /\ escrows[i[1]].gen > i[2]
    /\ i \notin settled
    /\ \A p \in BagToSet(settlements) : <<p.hashlock, p.gen>> # i

\* no step, at whatever time, brings a lost escrow instance back
LostForever == [][\A i \in Instances : Lost(i) => Lost(i)']_vars

\* C23: a cancel of an unclaimed escrow by any caller passes its checks at
\* every time from the public cancellation start (source) or the
\* cancellation start (destination) on, and every escrow that is created
\* with such a start within the clock's range is in the end successfully
\* settled.
C23_EveryEscrowSettles ==
    /\ []CancelOpenToAll
    /\ \A i \in Hashlocks \X (1..MaxGen) :
          (Stored(i) /\ CancellableInTime(escrows[i[1]])) ~> (i \in settled)

\* the order params with account named as its taker: what a resolver the
\* maker did not designate submits in its own name
Retargeted(params, account) == [params EXCEPT !.taker_id = account]

\* no call by account, which the order params does not name as taker,
\* succeeds: neither with the order as signed nor with the order retargeted
\* to the account, with any signature made over the order as signed
OtherResolverRejected(params, account) ==
    \A public_key \in PublicKeys, signature \in SignaturesFor(params) :
       /\ ~ENABLED initiate_source_escrow(account, params, signature,
                                          public_key, MaxSafety)
       /\ ~ENABLED initiate_source_escrow(account, Retargeted(params, account),
                                          signature, public_key, MaxSafety)

\* C31: initiate_source_escrow succeeds only for the caller the signed order
\* names as taker_id, who becomes the taker of the stored escrow; a call by
\* any other account with the same order and signature fails.
C31_DesignatedTakerOnly ==
    /\ [](\A params \in {o \in Orders : validate(o.timelocks)} :
             \A account \in Accounts \ {params.taker_id} :
                OtherResolverRejected(params, account))
    /\ [](\A h \in DOMAIN escrows :
             escrows[h].is_source =>
                \E o \in Orders :
                   o.hashlock = h /\ o.maker_id = escrows[h].maker
                      /\ o.taker_id = escrows[h].taker)
    /\ [][SourceEscrowCreated =>
             \A predecessor \in Accounts, params \in Orders,
                public_key \in PublicKeys, attached_deposit \in 0..MaxSafety :
                \A signature \in SignaturesFor(params) :
                   initiate_source_escrow(predecessor, params, signature,
                                          public_key, attached_deposit) =>
                      /\ predecessor = params.taker_id
                      /\ signature.order = params
                      /\ escrows'[params.hashlock].taker = params.taker_id]_vars

\* For C31: in a build that checks overflow, the resolver the order names
\* has created the source escrow and is its taker, while the maker's key is
\* registered.
C31_Witness ==
    /\ checked
    /\ "h1" \in DOMAIN escrows
    /\ escrows["h1"].is_source
    /\ escrows["h1"].taker = "resolver"
    /\ contains(get_registered_keys("maker"), "pk_maker")

\* C32: the success path of the callback of a source escrow's settlement
\* adjusts the ledger of the maker and token of the escrow the settlement
\* was dispatched for, by that escrow's amount: the record the callback reads
\* has the maker, token and amount of the dispatched transfers, locked
\* decreases by exactly that amount and, on a claim, so does total.
C32_AdjustmentMatchesDispatch ==
    [][\A p \in BagToSet(settlements) :
          (on_escrow_settled(p) /\ is_successful(p) /\ p.is_source) =>
             /\ escrows[p.hashlock].maker = p.maker_id
             /\ escrows[p.hashlock].asset = p.token
             /\ escrows[p.hashlock].amount = p.amount
             /\ get_locked_balance(p.maker_id, p.token)' =
                   get_locked_balance(p.maker_id, p.token) - p.amount
             /\ get_total_balance(p.maker_id, p.token)' =
                   (IF p.is_cancel
                    THEN get_total_balance(p.maker_id, p.token)
                    ELSE get_total_balance(p.maker_id, p.token) - p.amount)]_vars

=============================================================================
